---------------------------- MODULE Spec2Model ----------------------------
(***************************************************************************)
(* A model of claude_cli.py: the ChatSession (prompt assembly and history), *)
(* the code-block extractor and validator, and main's batch run and        *)
(* interactive loop.  Python str values are TLA+ strings; Optional[str] is *)
(* a sequence of length 0 (None) or 1; a Python list is a sequence.  Where  *)
(* the code binds a local and uses it more than once, the model passes it   *)
(* as a parameter to the operator that models the rest of the function.    *)
(***************************************************************************)
EXTENDS Integers, Sequences, FiniteSets, TLC

VARIABLES
    mode,                  \* which entry point runs: "main", "validate", "extract"
    pc,                    \* position in that entry point
    preserve_context,      \* ChatSession.preserve_context  (not --no-context)
    script_output,         \* --script-output given (the option, and the word in sys.argv)
    output,                \* --output given
    file,                  \* --file: whether given, whether reading it works, its text
    prompt,                \* --prompt: Optional[str]
    conversation_history,  \* ChatSession.conversation_history
    last_call,             \* the last send_message call: inputs, prompt sent, outcome
    transcript,            \* every send_message call so far: message, remote outcome
    env,                   \* what the environment did in the last step
    echoed,                \* what the last step wrote with click.echo
    written,               \* what the last step wrote to disk
    exit_cause,            \* why main or its loop stopped
    turns,                 \* iterations of the interactive loop so far
    code,                  \* validate_code_block's argument
    valid,                 \* validate_code_block's result
    text,                  \* extract_code_blocks's argument
    layout,                \* how text was built: the fenced regions and the prose
    code_blocks            \* extract_code_blocks's result

vars == <<mode, pc, preserve_context, script_output, output, file, prompt,
          conversation_history, last_call, transcript, env, echoed, written,
          exit_cause, turns, code, valid, text, layout, code_blocks>>

session_vars == <<preserve_context, script_output, output, file, prompt,
                  conversation_history, last_call, transcript, env, echoed,
                  written, exit_cause, turns>>

validate_vars == <<code, valid>>

extract_vars == <<text, layout, code_blocks>>

----------------------------------------------------------------------------
(* Python str and list operations *)

None == <<>>

Some(s) == <<s>>

\* bool(x) of an Optional[str]: None and "" are false
Truthy(opt) == opt # None /\ opt[1] # ""

CharAt(s, i) == SubSeq(s, i, i)

\* s[i-1:] of Python, i from 1
From(s, i) == SubSeq(s, i, Len(s))

\* sub occurs in s at index i
StartsAt(s, i, sub) ==
    /\ i >= 1
    /\ i + Len(sub) - 1 <= Len(s)
    /\ SubSeq(s, i, i + Len(sub) - 1) = sub

Least(hits) == IF hits = {} THEN 0 ELSE CHOOSE j \in hits : \A k \in hits : j <= k

\* str.find from index i on: the least index, 0 when there is none
Find(s, sub, i) == Least({j \in i .. (Len(s) - Len(sub) + 1) : StartsAt(s, j, sub)})

\* sub in s
Contains(s, sub) == Find(s, sub, 1) # 0

Whitespace == {" ", "\n", "\t", "\r", "\f"}

RECURSIVE LStrip(_)
LStrip(s) ==
    IF Len(s) > 0 /\ CharAt(s, 1) \in Whitespace THEN LStrip(From(s, 2)) ELSE s

RECURSIVE RStrip(_)
RStrip(s) ==
    IF Len(s) > 0 /\ CharAt(s, Len(s)) \in Whitespace
    THEN RStrip(SubSeq(s, 1, Len(s) - 1))
    ELSE s

\* str.strip()
Strip(s) == RStrip(LStrip(s))

\* sep.join(parts)
RECURSIVE Join(_, _)
Join(sep, parts) ==
    IF parts = <<>> THEN ""
    ELSE IF Len(parts) = 1 THEN parts[1]
    ELSE parts[1] \o sep \o Join(sep, Tail(parts))

\* s.replace(old, ""): RemoveAt is the step at the first occurrence, i
RECURSIVE Remove(_, _)
RemoveAt(s, old, i) ==
    IF i = 0 THEN s
    ELSE SubSeq(s, 1, i - 1) \o Remove(From(s, i + Len(old)), old)

Remove(s, old) == RemoveAt(s, old, Find(s, old, 1))

\* s.split("\n"): SplitAt is the step at the first newline, i
RECURSIVE SplitLines(_)
SplitAt(s, i) ==
    IF i = 0 THEN <<s>>
    ELSE <<SubSeq(s, 1, i - 1)>> \o SplitLines(From(s, i + 1))

SplitLines(s) == SplitAt(s, Find(s, "\n", 1))

UpperCase == <<"E", "X", "I", "T", "Q", "U">>

LowerCase == <<"e", "x", "i", "t", "q", "u">>

LowerAt(c, k) == IF k = {} THEN c ELSE LowerCase[CHOOSE i \in k : TRUE]

\* str.lower(), on the letters the inputs use
RECURSIVE Lower(_)
Lower(s) ==
    IF s = "" THEN ""
    ELSE LowerAt(CharAt(s, 1), {i \in 1 .. Len(UpperCase) : UpperCase[i] = CharAt(s, 1)})
         \o Lower(From(s, 2))

----------------------------------------------------------------------------
(* ChatSession *)

\* The backtick character.  A TLA+ string literal cannot hold one, so the
\* model writes it as "~", a character no input of the model uses otherwise.
Backtick == "~"

Fence == Backtick \o Backtick \o Backtick

ScriptInstruction ==
    "\n\nPlease return the complete script in its entirety within triple backticks ("
    \o Fence
    \o "). If the script contains backticks, please escape them or use alternative delimiters."

\* send_message, lines 18-20: the message, under the context when there is one
WithContext(message, context) ==
    IF Truthy(context)
    THEN "Context:\n" \o context[1] \o "\n\nQuestion/Instruction:\n" \o message
    ELSE message

\* send_message, lines 18-24: the text of the current turn
ComposeTurn(message, context, script) ==
    IF script
    THEN WithContext(message, context) \o ScriptInstruction
    ELSE WithContext(message, context)

\* A variant of AssemblePrompt: the entries and the turn joined by spaces
AssemblePromptSpaced(preserve, history, turn_text) ==
    IF preserve /\ history # <<>>
    THEN Join(" ", history \o <<turn_text>>)
    ELSE turn_text

\* send_message, lines 26-27: earlier entries are put before the turn's text
AssemblePrompt(preserve, history, turn_text) ==
    IF preserve /\ history # <<>>
    THEN Join("\n", history \o <<turn_text>>)
    ELSE turn_text

\* A variant of RecordTurn: the turn recorded whatever preserve_context is
RecordTurnAlways(preserve, history, full_prompt, ai_response) ==
    history \o <<full_prompt, ai_response>>

\* A variant of RecordTurn: the history assigned, not extended
RecordTurnAssigned(preserve, history, full_prompt, ai_response) ==
    IF preserve THEN <<full_prompt, ai_response>> ELSE history

\* send_message, lines 34-35: what a successful call leaves in the history
RecordTurn(preserve, history, full_prompt, ai_response) ==
    IF preserve THEN history \o <<full_prompt, ai_response>> ELSE history

\* A variant of OnException: the failed turn recorded with the error text
OnExceptionRecorded(preserve, history, full_prompt, e) ==
    [prompt |-> full_prompt, raised |-> "none",
     value |-> "An error occurred: " \o e,
     history |-> IF preserve
                 THEN history \o <<full_prompt, "An error occurred: " \o e>>
                 ELSE history]

\* A variant of OnException: the Exception left to the caller
OnExceptionRaised(preserve, history, full_prompt, e) ==
    [prompt |-> full_prompt, raised |-> "Exception", value |-> "", history |-> history]

\* send_message, lines 37-38: any Exception of the call becomes the returned text
OnException(preserve, history, full_prompt, e) ==
    [prompt |-> full_prompt, raised |-> "none",
     value |-> "An error occurred: " \o e, history |-> history]

\* send_message, lines 29-38, with full_prompt built.  remote is what
\* client.messages.create does with the prompt: it answers with a text, raises
\* an Exception (authentication, network, rate limit, length; a malformed
\* answer raises at line 33), or the user interrupts it (KeyboardInterrupt is
\* no Exception, so line 37 does not catch it).
CallRemote(preserve, history, full_prompt, remote) ==
    CASE remote.kind = "ok" ->
            [prompt |-> full_prompt, raised |-> "none", value |-> remote.text,
             history |-> RecordTurn(preserve, history, full_prompt, remote.text)]
      [] remote.kind = "error" ->
            OnException(preserve, history, full_prompt, remote.text)
      [] remote.kind = "interrupt" ->
            [prompt |-> full_prompt, raised |-> "KeyboardInterrupt", value |-> "",
             history |-> history]

send_message(preserve, history, script, message, context, remote) ==
    CallRemote(preserve, history,
               AssemblePrompt(preserve, history, ComposeTurn(message, context, script)),
               remote)

----------------------------------------------------------------------------
(* extract_code_blocks *)

\* \w of the re module, on ASCII
WordChars ==
    {"a", "b", "c", "d", "e", "f", "g", "h", "i", "j", "k", "l", "m", "n", "o",
     "p", "q", "r", "s", "t", "u", "v", "w", "x", "y", "z",
     "A", "B", "C", "D", "E", "F", "G", "H", "I", "J", "K", "L", "M", "N", "O",
     "P", "Q", "R", "S", "T", "U", "V", "W", "X", "Y", "Z",
     "0", "1", "2", "3", "4", "5", "6", "7", "8", "9", "_"}

\* \w* from index i: the index after the longest run of word characters
RECURSIVE SkipWord(_, _)
SkipWord(s, i) ==
    IF i <= Len(s) /\ CharAt(s, i) \in WordChars THEN SkipWord(s, i + 1) ELSE i

\* (?:\w*\n)? at index b, the run of word characters ending before index w
TagEndAt(s, b, w) == IF w <= Len(s) /\ CharAt(s, w) = "\n" THEN w + 1 ELSE b

\* (?:\w*\n)? at index b: the index after the tag and its newline, or b when
\* the run of word characters is not followed by a newline
TagEnd(s, b) == TagEndAt(s, b, SkipWord(s, b))

\* re.findall(open (?:\w*\n)? (.*?) close, s, re.DOTALL) from index pos on; the
\* tag group only when tagged.  The body is lazy: it ends at the nearest close.
RECURSIVE FindAllDelimited(_, _, _, _, _)
\* a match: the body from index start to the close at index j; on after it
MatchFound(s, open, close, tagged, start, j) ==
    <<SubSeq(s, start, j - 1)>>
    \o FindAllDelimited(s, open, close, tagged, j + Len(close))

\* no close after the tag: the engine retries the open at i without the tag
\* group, the close then at j; without a close it moves on from i + 1
WithoutTag(s, open, close, tagged, i, b, j) ==
    IF j = 0 THEN FindAllDelimited(s, open, close, tagged, i + 1)
    ELSE MatchFound(s, open, close, tagged, b, j)

\* the open at i, the body from b or, after the tag, from t; jt the close after t
WithTag(s, open, close, tagged, i, b, t, jt) ==
    IF jt # 0 THEN MatchFound(s, open, close, tagged, t, jt)
    ELSE WithoutTag(s, open, close, tagged, i, b, Find(s, close, b))

OpenAt(s, open, close, tagged, i, b, t) ==
    WithTag(s, open, close, tagged, i, b, t, Find(s, close, t))

FromOpen(s, open, close, tagged, i) ==
    IF i = 0 THEN <<>>
    ELSE OpenAt(s, open, close, tagged, i, i + Len(open),
                IF tagged THEN TagEnd(s, i + Len(open)) ELSE i + Len(open))

FindAllDelimited(s, open, close, tagged, pos) ==
    FromOpen(s, open, close, tagged, Find(s, open, pos))

\* [^`]* from index i
RECURSIVE SkipNonBacktick(_, _)
SkipNonBacktick(s, i) ==
    IF i <= Len(s) /\ CharAt(s, i) # Backtick THEN SkipNonBacktick(s, i + 1) ELSE i

\* [^`]*(?:`[^`]+)*? followed by the closing fence, from index p: the index of
\* the closing fence, 0 when the body cannot be matched.  q is where the run of
\* other characters from p ends.
RECURSIVE PermissiveClose(_, _)
PermissiveCloseAt(s, q) ==
    IF q > Len(s) THEN 0
    ELSE IF StartsAt(s, q, Fence) THEN q
    ELSE IF q + 1 <= Len(s) /\ CharAt(s, q + 1) # Backtick
         THEN PermissiveClose(s, q + 1)
    ELSE 0

PermissiveClose(s, p) == PermissiveCloseAt(s, SkipNonBacktick(s, p))

\* re.findall of the more permissive backtick pattern, line 57
RECURSIVE FindAllPermissive(_, _)
PermissiveBody(s, i, j) ==
    IF j = 0 THEN FindAllPermissive(s, i + 1)
    ELSE <<SubSeq(s, i + Len(Fence), j - 1)>> \o FindAllPermissive(s, j + Len(Fence))

PermissiveOpen(s, i) ==
    IF i = 0 THEN <<>> ELSE PermissiveBody(s, i, PermissiveClose(s, i + Len(Fence)))

FindAllPermissive(s, pos) == PermissiveOpen(s, Find(s, Fence, pos))

\* from \w+ import at index k, the run of word characters ending before index w
FromImportEnd(s, k, w) ==
    IF StartsAt(s, k, "from ") /\ w > k + Len("from ") /\ StartsAt(s, w, " import")
    THEN w + Len(" import")
    ELSE 0

\* (?:def |class |import |from \w+ import) at index k: the index after it, else 0
KeywordEnd(s, k) ==
    IF StartsAt(s, k, "def ") THEN k + Len("def ")
    ELSE IF StartsAt(s, k, "class ") THEN k + Len("class ")
    ELSE IF StartsAt(s, k, "import ") THEN k + Len("import ")
    ELSE FromImportEnd(s, k, SkipWord(s, k + Len("from ")))

\* A variant of LineStart: the keyword taken anywhere in a line
LineStartAnywhere(s, p) == TRUE

\* ^ under re.MULTILINE
LineStart(s, p) == p = 1 \/ CharAt(s, p - 1) = "\n"

\* (?:^|\n)(?:def |...) at index p: the index after the keyword, else 0; the
\* alternatives in the engine's order, atLine for ^ and afterNewline for \n
AnchoredKeyword(atLine, afterNewline) == IF atLine # 0 THEN atLine ELSE afterNewline

KeywordAt(s, p) ==
    AnchoredKeyword(IF LineStart(s, p) THEN KeywordEnd(s, p) ELSE 0,
                    IF CharAt(s, p) = "\n" THEN KeywordEnd(s, p + 1) ELSE 0)

\* .*?(?=\n\n|\Z) from index q: the index where the match ends
RECURSIVE RunEnd(_, _)
RunEnd(s, q) ==
    IF q > Len(s) \/ StartsAt(s, q, "\n\n") THEN q ELSE RunEnd(s, q + 1)

\* re.findall(fallback_pattern, s, re.DOTALL | re.MULTILINE) from index p on
RECURSIVE FindAllFallback(_, _)
FallbackRun(s, p, q) == <<SubSeq(s, p, q - 1)>> \o FindAllFallback(s, q)

FallbackAt(s, p, k) ==
    IF k = 0 THEN FindAllFallback(s, p + 1) ELSE FallbackRun(s, p, RunEnd(s, k))

FindAllFallback(s, p) ==
    IF p > Len(s) THEN <<>> ELSE FallbackAt(s, p, KeywordAt(s, p))

\* [block.strip() for block in matches]
StripAll(matches) == [n \in 1 .. Len(matches) |-> Strip(matches[n])]

DoubleQuote == "\""

TripleDouble == DoubleQuote \o DoubleQuote \o DoubleQuote

\* alternative_patterns[n - 1], lines 53-58
AlternativeMatches(s, n) ==
    CASE n = 1 -> FindAllDelimited(s, "'''", "'''", FALSE, 1)
      [] n = 2 -> FindAllDelimited(s, TripleDouble, TripleDouble, FALSE, 1)
      [] n = 3 -> FindAllDelimited(s, "{{{", "}}}", FALSE, 1)
      [] n = 4 -> FindAllPermissive(s, 1)

\* lines 66-68
Fallback(s) == StripAll(FindAllFallback(s, 1))

\* lines 60-63: the loop over alternative_patterns, at pattern n
RECURSIVE TryAlternatives(_, _)
AlternativeTried(s, n, matches) ==
    IF matches # <<>> THEN StripAll(matches) ELSE TryAlternatives(s, n + 1)

TryAlternatives(s, n) ==
    IF n > 4 THEN Fallback(s) ELSE AlternativeTried(s, n, AlternativeMatches(s, n))

\* lines 49-50, matches those of standard_pattern, line 46
StandardTried(s, matches) ==
    IF matches # <<>> THEN StripAll(matches) ELSE TryAlternatives(s, 1)

extract_code_blocks(s) == StandardTried(s, FindAllDelimited(s, Fence, Fence, TRUE, 1))

----------------------------------------------------------------------------
(* validate_code_block *)

\* line 74
MinCodeLength == 10

basic_indicators ==
    {"def ", "import ", "class ", "= ", "print(", "return ", "if ", "for ",
     "while ", "try:", "with ", "@", "lambda"}

Openers == {"(", "[", "{"}

Closers == {")", "]", "}"}

\* brackets[c], line 99
ClosingOf(c) == CASE c = "(" -> ")" [] c = "[" -> "]" [] c = "{" -> "}"

\* A variant of BracketScan: a closer pops whatever opener is on the stack
RECURSIVE BracketScanUntyped(_, _, _)
BracketScanUntyped(s, i, stack) ==
    IF i > Len(s) THEN stack = <<>>
    ELSE IF CharAt(s, i) \in Openers
         THEN BracketScanUntyped(s, i + 1, Append(stack, CharAt(s, i)))
    ELSE IF CharAt(s, i) \in Closers
         THEN IF stack = <<>> THEN FALSE
              ELSE BracketScanUntyped(s, i + 1, SubSeq(stack, 1, Len(stack) - 1))
    ELSE BracketScanUntyped(s, i + 1, stack)

\* lines 102-112: the scan from index i with the stack so far
RECURSIVE BracketScan(_, _, _)
BracketScan(s, i, stack) ==
    IF i > Len(s) THEN stack = <<>>
    ELSE IF CharAt(s, i) \in Openers
         THEN BracketScan(s, i + 1, Append(stack, CharAt(s, i)))
    ELSE IF CharAt(s, i) \in Closers
         THEN IF stack = <<>> THEN FALSE
              ELSE IF CharAt(s, i) # ClosingOf(stack[Len(stack)]) THEN FALSE
              ELSE BracketScan(s, i + 1, SubSeq(stack, 1, Len(stack) - 1))
    ELSE BracketScan(s, i + 1, stack)

\* line 116
AnyIndented(lines) ==
    \E n \in 1 .. Len(lines) : StartsAt(lines[n], 1, " ") \/ StartsAt(lines[n], 1, "\t")

\* lines 115-116
HasIndentation(s) == AnyIndented(SplitLines(s))

validate_code_block(s) ==
    IF s = "" \/ Len(Strip(s)) < MinCodeLength THEN FALSE
    ELSE IF ~ \E indicator \in basic_indicators : Contains(s, indicator) THEN FALSE
    ELSE IF ~ BracketScan(s, 1, <<>>) THEN FALSE
    ELSE HasIndentation(s)

----------------------------------------------------------------------------
(* Bounds of the model *)

\* iterations of the interactive loop
MaxTurns == 3

----------------------------------------------------------------------------
(* process_file, save_to_file, handle_script_output *)

ReadError == "[Errno 13] Permission denied"

DiskError == "[Errno 28] No space left on device"

NoFile == [given |-> FALSE, readable |-> FALSE, content |-> ""]

\* process_file: the file's text, or, when reading raises, the text of the error
process_file(f) ==
    IF f.readable THEN f.content ELSE "Error reading file: " \o ReadError

\* nothing written, nothing echoed, the disk not touched
Nothing == [written |-> <<>>, echoed |-> <<>>, disk |-> FALSE]

\* save_to_file: a failing write is caught here and echoed
save_to_file(content, path, disk_ok) ==
    IF disk_ok
    THEN [written |-> <<[path |-> path, content |-> Strip(Remove(content, Fence))]>>,
          echoed |-> <<>>, disk |-> TRUE]
    ELSE [written |-> <<>>, echoed |-> <<"Error saving to file: " \o DiskError>>,
          disk |-> TRUE]

BlockSeparator == "\n\n# ===== Code Block Separator =====\n\n"

NoValidBlocks == "No valid code blocks found in the response."

\* handle_script_output, lines 160-161, save what save_to_file did
ScriptSaved(save) ==
    [save EXCEPT !.echoed = save.echoed \o <<"Script saved to script">>]

\* handle_script_output, lines 152-161
SaveValidBlocks(valid_blocks, disk_ok) ==
    IF valid_blocks = <<>> THEN [Nothing EXCEPT !.echoed = <<NoValidBlocks>>]
    ELSE ScriptSaved(save_to_file(Join(BlockSeparator, valid_blocks), "script", disk_ok))

\* handle_script_output, lines 145-161
FilterBlocks(blocks, disk_ok) ==
    IF blocks = <<>> THEN [Nothing EXCEPT !.echoed = <<NoValidBlocks>>]
    ELSE SaveValidBlocks(SelectSeq(blocks, validate_code_block), disk_ok)

\* handle_script_output, with a sink that takes the messages
handle_script_output(response, disk_ok) ==
    FilterBlocks(extract_code_blocks(response), disk_ok)

----------------------------------------------------------------------------
(* main *)

\* what the user may type, and the ways input() may end instead
UserLines == {"say hi", "say hi again", "exit", "Quit", "q"}

NoInput == [kind |-> "none", text |-> ""]

Inputs ==
    [kind : {"line"}, text : UserLines]
    \cup {[kind |-> "EOFError", text |-> "EOF when reading a line"],
          [kind |-> "KeyboardInterrupt", text |-> ""]}

CodeResponse ==
    "Here it is:\n" \o Fence \o "python\ndef f():\n    return 1\n" \o Fence

NoRemote == [kind |-> "none", text |-> ""]

\* what the remote client may do with a prompt
Remotes ==
    [kind : {"ok"}, text : {"hello", CodeResponse}]
    \cup {[kind |-> "error", text |-> "rate limited"],
          [kind |-> "interrupt", text |-> ""]}

Files ==
    {NoFile,
     [given |-> TRUE, readable |-> TRUE, content |-> "notes"],
     [given |-> TRUE, readable |-> TRUE, content |-> ""],
     [given |-> TRUE, readable |-> FALSE, content |-> ""]}

Prompts == {None, Some(""), Some("say hi")}

\* the environment of one step: what input() gives, what the remote client
\* does, whether the output sink takes writes, whether the disk does
Envs ==
    [input : Inputs \cup {NoInput}, remote : Remotes \cup {NoRemote},
     sink_ok : BOOLEAN, disk_ok : BOOLEAN]

\* e with the parts the step did not reach left at their defaults
Reached(e, input, remote, sink, disk) ==
    [input |-> IF input THEN e.input ELSE NoInput,
     remote |-> IF remote THEN e.remote ELSE NoRemote,
     sink_ok |-> IF sink THEN e.sink_ok ELSE TRUE,
     disk_ok |-> IF disk THEN e.disk_ok ELSE TRUE]

\* the record of a send_message call: its arguments, the history it found, what
\* the remote client did, the prompt it sent and what it returned or raised
Call(message, context, history, remote, r) ==
    Some([message |-> message, context |-> context, history_before |-> history,
          remote |-> remote, prompt |-> r.prompt, raised |-> r.raised,
          value |-> r.value])

\* the step's effect on the state: e is the environment it met, reached the
\* part of it the step got to
Commit(e, reached, history, call, echo, disk, next_pc, cause) ==
    /\ e = reached
    /\ env' = e
    /\ conversation_history' = history
    /\ last_call' = IF call # None THEN call ELSE last_call
    /\ transcript' = IF call # None
                     THEN Append(transcript, [message |-> call[1].message,
                                              remote |-> call[1].remote])
                     ELSE transcript
    /\ echoed' = echo
    /\ written' = disk
    /\ pc' = next_pc
    /\ exit_cause' = cause

\* lines 198-203: the response to the --output file; save what save_to_file
\* did.  The echo of line 201 on a sink that takes no writes raises into the
\* handler of line 202, whose own echo raises out of main.
ToOutputFile(save, sink_ok) ==
    IF sink_ok
    THEN [raised |-> "none", echoed |-> save.echoed \o <<"Response saved to output">>,
          written |-> save.written, disk |-> TRUE]
    ELSE [raised |-> "Exception", echoed |-> <<>>, written |-> save.written,
          disk |-> TRUE]

\* lines 204-205: the response to the terminal; the echo raises out of main on
\* a sink that takes no writes
ToTerminal(response, sink_ok) ==
    IF sink_ok
    THEN [raised |-> "none", echoed |-> <<"Claude: " \o response>>,
          written |-> <<>>, disk |-> FALSE]
    ELSE [raised |-> "Exception", echoed |-> <<>>, written |-> <<>>, disk |-> FALSE]

\* lines 207-208 after lines 198-205: first is what those did
ThenScript(first, script) ==
    [raised |-> "none", echoed |-> first.echoed \o script.echoed,
     written |-> first.written \o script.written,
     disk |-> first.disk \/ script.disk]

AfterDelivery(first, response, e) ==
    IF first.raised # "none" THEN first
    ELSE IF script_output THEN ThenScript(first, handle_script_output(response, e.disk_ok))
    ELSE first

\* lines 198-208
DeliverBatch(response, e) ==
    AfterDelivery(IF output
                  THEN ToOutputFile(save_to_file(response, "output", e.disk_ok), e.sink_ok)
                  ELSE ToTerminal(response, e.sink_ok),
                  response, e)

\* lines 198-209 after send_message returned r
BatchDelivered(e, call, r, d) ==
    Commit(e, Reached(e, FALSE, TRUE, TRUE, d.disk), r.history, call,
           d.echoed, d.written, "done",
           IF d.raised # "none" THEN d.raised ELSE "return")

\* lines 187-209 after send_message: a KeyboardInterrupt goes out of main
BatchSent(e, call, r) ==
    IF r.raised # "none"
    THEN Commit(e, Reached(e, FALSE, TRUE, FALSE, FALSE), r.history, call,
                <<>>, <<>>, "done", r.raised)
    ELSE BatchDelivered(e, call, r, DeliverBatch(r.value, e))

BatchSend(e, message, context) ==
    BatchSent(e,
              Call(message, context, conversation_history, e.remote,
                   send_message(preserve_context, conversation_history, script_output,
                                message, context, e.remote)),
              send_message(preserve_context, conversation_history, script_output,
                           message, context, e.remote))

\* lines 183-185
file_content == IF file.given THEN Some(process_file(file)) ELSE None

\* lines 187-209: with --prompt or --file, one message is sent and main returns
BatchRun ==
    /\ mode = "main" /\ pc = "start"
    /\ Truthy(prompt) \/ file.given
    /\ \E e \in Envs :
         /\ e.remote # NoRemote
         /\ IF Truthy(prompt) /\ ~ file.given THEN BatchSend(e, prompt[1], None)
            ELSE IF file.given /\ ~ Truthy(prompt) THEN BatchSend(e, file_content[1], None)
            ELSE BatchSend(e, prompt[1], file_content)
    /\ UNCHANGED <<mode, preserve_context, script_output, output, file, prompt, turns>>
    /\ UNCHANGED <<validate_vars, extract_vars>>

\* lines 211-213: without --prompt and --file, the welcome and into the loop;
\* the echo raises out of main on a sink that takes no writes
StartInteractive ==
    /\ mode = "main" /\ pc = "start"
    /\ ~ (Truthy(prompt) \/ file.given)
    /\ \E e \in Envs :
         Commit(e, Reached(e, FALSE, FALSE, TRUE, FALSE), conversation_history, None,
                IF e.sink_ok
                THEN <<"Welcome to Anthropic CLI Chat", "Type 'exit' or press Ctrl+C to quit.">>
                ELSE <<>>,
                <<>>,
                IF e.sink_ok THEN "loop" ELSE "done",
                IF e.sink_ok THEN "none" ELSE "Exception")
    /\ UNCHANGED <<mode, preserve_context, script_output, output, file, prompt, turns>>
    /\ UNCHANGED <<validate_vars, extract_vars>>

ExitWords == {"exit", "quit", "q"}

\* lines 217-220: the input is a line and no exit word, so send_message is called
CallsRemote(input) == input.kind = "line" /\ Lower(input.text) \notin ExitWords

\* an iteration that ended before lines 221-224
Ended(ends, history, call) ==
    [ends |-> ends, history |-> history, call |-> call,
     written |-> <<>>, echoed |-> <<>>, disk |-> FALSE]

\* lines 221-224, script what handle_script_output did
Echoed(history, call, response, script) ==
    [ends |-> "continue", history |-> history, call |-> call,
     echoed |-> <<"Claude: " \o response>> \o script.echoed,
     written |-> script.written, disk |-> script.disk]

\* lines 220-224 after send_message returned or raised r
Sent(call, r, e) ==
    IF r.raised # "none" THEN Ended(r.raised, r.history, call)
    ELSE IF ~ e.sink_ok THEN Ended("Exception", r.history, call)
    ELSE Echoed(r.history, call, r.value,
                IF script_output THEN handle_script_output(r.value, e.disk_ok)
                ELSE Nothing)

\* lines 217-224, the body of the loop: how it ends ("continue", "break", or
\* the exception it raises) and what it did
LoopBody(history, e) ==
    IF e.input.kind # "line" THEN Ended(e.input.kind, history, None)
    ELSE IF Lower(e.input.text) \in ExitWords THEN Ended("break", history, None)
    ELSE Sent(Call(e.input.text, None, history, e.remote,
                   send_message(preserve_context, history, script_output,
                                e.input.text, None, e.remote)),
              send_message(preserve_context, history, script_output,
                           e.input.text, None, e.remote),
              e)

\* lines 225-229: what main does with the way the body ended.  The handler of
\* KeyboardInterrupt is inside the loop and breaks; the handler of Exception is
\* around the loop, so an Exception ends the loop too; its echo, and the
\* Goodbye, raise out of main on a sink that takes no writes.
AfterBody(ends, sink_ok) ==
    CASE ends = "continue" ->
            [pc |-> "loop", exit_cause |-> "none", echoed |-> <<>>]
      [] ends = "break" ->
            [pc |-> "done", exit_cause |-> "exit",
             echoed |-> IF sink_ok THEN <<"Goodbye!">> ELSE <<>>]
      [] ends = "KeyboardInterrupt" ->
            [pc |-> "done", exit_cause |-> "interrupt",
             echoed |-> IF sink_ok THEN <<"Goodbye!">> ELSE <<>>]
      [] OTHER ->
            [pc |-> "done", exit_cause |-> ends,
             echoed |-> IF sink_ok
                        THEN <<"An unexpected error occurred: ", "Goodbye!">>
                        ELSE <<>>]

\* lines 215-229 with the body run: b what it did, a what main does next
Iterated(e, b, a) ==
    Commit(e, Reached(e, TRUE, b.call # None, TRUE, b.disk), b.history, b.call,
           b.echoed \o a.echoed, b.written, a.pc, a.exit_cause)

\* one iteration of the interactive loop, lines 215-229
LoopIteration ==
    /\ mode = "main" /\ pc = "loop"
    /\ turns < MaxTurns
    /\ \E e \in Envs :
         /\ e.input # NoInput
         /\ (e.remote # NoRemote) <=> CallsRemote(e.input)
         /\ Iterated(e, LoopBody(conversation_history, e),
                     AfterBody(LoopBody(conversation_history, e).ends, e.sink_ok))
    /\ turns' = turns + 1
    /\ UNCHANGED <<mode, preserve_context, script_output, output, file, prompt>>
    /\ UNCHANGED <<validate_vars, extract_vars>>

InitMain ==
    /\ mode = "main" /\ pc = "start"
    /\ preserve_context \in BOOLEAN
    /\ script_output \in BOOLEAN
    /\ output \in BOOLEAN
    /\ file \in Files
    /\ prompt \in Prompts
    /\ conversation_history = <<>>
    /\ last_call = None
    /\ transcript = <<>>
    /\ env = [input |-> NoInput, remote |-> NoRemote, sink_ok |-> TRUE, disk_ok |-> TRUE]
    /\ echoed = <<>>
    /\ written = <<>>
    /\ exit_cause = "none"
    /\ turns = 0
    /\ code = "" /\ valid = FALSE
    /\ text = "" /\ layout = <<>> /\ code_blocks = <<>>

Next == BatchRun \/ StartInteractive \/ LoopIteration

Spec == InitMain /\ [][Next]_vars

----------------------------------------------------------------------------
(* validate_code_block and extract_code_blocks on their own inputs *)

\* the longest run of brackets in a candidate
MaxBrackets == 3

\* the most fenced regions in a text
MaxRegions == 2

\* the most words in a text without fenced regions
MaxWords == 3

\* main's variables while the functions are run on their own
MainIdle ==
    /\ preserve_context = FALSE /\ script_output = FALSE /\ output = FALSE
    /\ file = NoFile /\ prompt = None
    /\ conversation_history = <<>> /\ last_call = None /\ transcript = <<>>
    /\ env = [input |-> NoInput, remote |-> NoRemote, sink_ok |-> TRUE, disk_ok |-> TRUE]
    /\ echoed = <<>> /\ written = <<>> /\ exit_cause = "none" /\ turns = 0

\* the sequences of at most n elements of S
SeqsUpTo(S, n) == UNION {[1 .. k -> S] : k \in 0 .. n}

\* candidates: a head, a run of brackets, a tail
Heads == {"", "x", "def f", "@", "    "}

Tails == {"", ":\n    pass", ":\n    return 1", ":\nreturn 1", "\n         ", ":\n\tpass  "}

Candidates ==
    {h \o Join("", b) \o t :
        h \in Heads, b \in SeqsUpTo(Openers \cup Closers, MaxBrackets), t \in Tails}

InitValidate ==
    /\ mode = "validate" /\ pc = "ready"
    /\ code \in Candidates
    /\ valid = FALSE
    /\ text = "" /\ layout = <<>> /\ code_blocks = <<>>
    /\ MainIdle

\* a call of validate_code_block
Validate ==
    /\ mode = "validate" /\ pc = "ready"
    /\ valid' = validate_code_block(code)
    /\ pc' = "done"
    /\ UNCHANGED <<mode, code, session_vars, extract_vars>>

NextValidate == Validate

SpecValidate == InitValidate /\ [][NextValidate]_vars

\* what follows an opening fence before the body: nothing, a newline, a tag
\* and a newline
RegionOpeners == {"", "\n", "python\n", "c++\n"}

\* bodies without backticks
RegionBodies == {"x = 1", "x\ny", " pass \n"}

\* prose without backticks
Proses == {"", "Here:\n"}

Regions == [opener : RegionOpeners, body : RegionBodies]

FencedLayouts ==
    UNION {[kind : {"fenced"}, regions : [1 .. k -> Regions],
            prose : [1 .. k + 1 -> Proses]] : k \in 1 .. MaxRegions}

Words ==
    {"hello", "\n", " ", "import os", "def f", "from os import x",
     "'''", TripleDouble, "{{{", "}}}", Fence}

FreeLayouts == [kind : {"free"}, words : SeqsUpTo(Words, MaxWords)]

\* the text of a fenced layout from region i on
RECURSIVE FencedFrom(_, _)
FencedFrom(l, i) ==
    IF i > Len(l.regions) THEN ""
    ELSE Fence \o l.regions[i].opener \o l.regions[i].body \o Fence
         \o l.prose[i + 1] \o FencedFrom(l, i + 1)

TextOf(l) ==
    IF l.kind = "fenced" THEN l.prose[1] \o FencedFrom(l, 1) ELSE Join("", l.words)

InitExtract ==
    /\ mode = "extract" /\ pc = "ready"
    /\ layout \in FencedLayouts \cup FreeLayouts
    /\ text = TextOf(layout)
    /\ code_blocks = <<>>
    /\ code = "" /\ valid = FALSE
    /\ MainIdle

\* a call of extract_code_blocks
Extract ==
    /\ mode = "extract" /\ pc = "ready"
    /\ code_blocks' = extract_code_blocks(text)
    /\ pc' = "done"
    /\ UNCHANGED <<mode, text, layout, session_vars, validate_vars>>

NextExtract == Extract

SpecExtract == InitExtract /\ [][NextExtract]_vars

----------------------------------------------------------------------------
(* The claims about the ChatSession and main, under Spec *)

\* the text of a turn as the specification words it: the message, wrapped
\* when a (non-empty) file context comes with it, then the code-output
\* instruction when --script-output is given
CurrentTurnText(message, context) ==
    (IF context # None /\ context[1] # ""
     THEN "Context:\n" \o context[1] \o "\n\nQuestion/Instruction:\n" \o message
     ELSE message)
    \o (IF script_output THEN ScriptInstruction ELSE "")

\* C1: with preserve_context false, after any calls of send_message, failed
\* or not, the history is empty and the prompt sent is the text of the
\* current turn alone.
C1_NoContextNoHistory ==
    ~ preserve_context =>
        /\ conversation_history = <<>>
        /\ last_call # None =>
             last_call[1].prompt = CurrentTurnText(last_call[1].message, last_call[1].context)

\* three calls without context preservation: one answered, one failed, one answered
C1_Witness ==
    /\ ~ preserve_context
    /\ Len(transcript) = 3
    /\ transcript[1].remote.kind = "ok"
    /\ transcript[2].remote.kind = "error"
    /\ transcript[3].remote.kind = "ok"

\* C2 as stated: with preserve_context true the prompt sent is always the
\* history entries joined by newlines, a newline, and the current turn's text,
\* whatever the history.
C2_AsStated ==
    (preserve_context /\ last_call # None) =>
        last_call[1].prompt =
            Join("\n", last_call[1].history_before) \o "\n"
            \o CurrentTurnText(last_call[1].message, last_call[1].context)

\* C2, amended: with preserve_context true and a non-empty history the prompt
\* sent is the history entries joined by newlines, a newline, and the current
\* turn's text; with an empty history it is the current turn's text alone.
C2_HistoryThenTurn ==
    (preserve_context /\ last_call # None) =>
        last_call[1].prompt =
            IF last_call[1].history_before = <<>>
            THEN CurrentTurnText(last_call[1].message, last_call[1].context)
            ELSE Join("\n", last_call[1].history_before) \o "\n"
                 \o CurrentTurnText(last_call[1].message, last_call[1].context)

\* a call that found two recorded turns
C2_Witness ==
    /\ preserve_context
    /\ last_call # None
    /\ Len(last_call[1].history_before) = 4

\* C3 as stated: with preserve_context true a failed remote call returns the
\* error text and the turn is recorded with the error text as its response.
C3_AsStated ==
    (preserve_context /\ last_call # None /\ last_call[1].remote.kind = "error") =>
        /\ last_call[1].raised = "none"
        /\ last_call[1].value = "An error occurred: " \o last_call[1].remote.text
        /\ conversation_history =
             last_call[1].history_before \o <<last_call[1].prompt, last_call[1].value>>

\* C3, amended: with preserve_context true a failed remote call returns the
\* error text, raises nothing, and leaves the history as it found it: the
\* failed turn is not recorded.
C3_FailureNotRecorded ==
    (preserve_context /\ last_call # None /\ last_call[1].remote.kind = "error") =>
        /\ last_call[1].raised = "none"
        /\ last_call[1].value = "An error occurred: " \o last_call[1].remote.text
        /\ conversation_history = last_call[1].history_before

\* a failed call after a recorded turn
C3_Witness ==
    /\ preserve_context
    /\ last_call # None
    /\ last_call[1].remote.kind = "error"
    /\ Len(last_call[1].history_before) = 2

IsPrefix(a, b) == Len(a) <= Len(b) /\ SubSeq(b, 1, Len(a)) = a

\* C4: with preserve_context true every step leaves the recorded entries in
\* place, and a successful call appends the prompt it sent and the response,
\* in this order, and nothing else.
C4_AppendOnly ==
    [][preserve_context =>
        /\ IsPrefix(conversation_history, conversation_history')
        /\ (transcript' # transcript /\ last_call'[1].remote.kind = "ok") =>
             conversation_history' =
                 conversation_history \o <<last_call'[1].prompt, last_call'[1].value>>]_vars

\* a third turn recorded after a failed call
C4_Witness ==
    /\ preserve_context
    /\ Len(conversation_history) = 4
    /\ Len(transcript) = 3
    /\ transcript[2].remote.kind = "error"
    /\ transcript[3].remote.kind = "ok"

\* m1, r1, ..., mn, rn of the first n calls
RECURSIVE Exchanges(_, _)
Exchanges(calls, n) ==
    IF n = 0 THEN <<>>
    ELSE Exchanges(calls, n - 1) \o <<calls[n].message, calls[n].remote.text>>

\* C10: with preserve_context true, no file context, no code-output
\* instruction and no failed call, the prompt of turn n+1 is m1, r1, ..., mn,
\* rn, m(n+1) joined by newlines, each earlier message and response once.
C10_EachTurnOnce ==
    (/\ preserve_context /\ ~ script_output
     /\ last_call # None /\ last_call[1].context = None
     /\ \A n \in 1 .. Len(transcript) - 1 : transcript[n].remote.kind = "ok") =>
        last_call[1].prompt =
            Join("\n", Exchanges(transcript, Len(transcript) - 1)
                       \o <<last_call[1].message>>)

\* C9: when reading the --file fails, the text of the error is not used as the
\* file's content: it is in no prompt sent and in no history entry.
C9_ErrorTextNotSent ==
    (file.given /\ ~ file.readable /\ last_call # None) =>
        /\ ~ Contains(last_call[1].prompt, "Error reading file")
        /\ \A n \in 1 .. Len(conversation_history) :
             ~ Contains(conversation_history[n], "Error reading file")

\* the loop has run and the last iteration met this environment
InLoop == mode = "main" /\ turns > 0

----------------------------------------------------------------------------
(* The claim about validate_code_block, under SpecValidate *)

\* the brackets of s, in order
RECURSIVE OnlyBrackets(_)
OnlyBrackets(s) ==
    IF s = "" THEN ""
    ELSE (IF CharAt(s, 1) \in Openers \cup Closers THEN CharAt(s, 1) ELSE "")
         \o OnlyBrackets(From(s, 2))

\* b with every adjacent matching pair taken out, until there is none
RECURSIVE Cancelled(_)
Cancelled(b) ==
    IF Contains(b, "()") THEN Cancelled(Remove(b, "()"))
    ELSE IF Contains(b, "[]") THEN Cancelled(Remove(b, "[]"))
    ELSE IF Contains(b, "{}") THEN Cancelled(Remove(b, "{}"))
    ELSE b

\* the four checks, each stated on the candidate as a whole
LongEnough(s) == Len(Strip(s)) >= 10

IndicatorPresent(s) ==
    \E indicator \in basic_indicators : \E i \in 1 .. Len(s) : StartsAt(s, i, indicator)

Balanced(s) == Cancelled(OnlyBrackets(s)) = ""

IndentedLine(s) ==
    \E i \in 1 .. Len(s) :
        CharAt(s, i) \in {" ", "\t"} /\ (i = 1 \/ CharAt(s, i - 1) = "\n")

\* C5: validate_code_block accepts a candidate exactly when it is long enough
\* once trimmed, holds an indicator, has balanced brackets and has a line that
\* starts with a space or a tab; "def f(:\n    pass" is rejected and
\* "def f():\n    return 1" is accepted.
C5_FourChecks ==
    (mode = "validate" /\ pc = "done") =>
        /\ valid = (LongEnough(code) /\ IndicatorPresent(code)
                    /\ Balanced(code) /\ IndentedLine(code))
        /\ code = "def f(:\n    pass" => ~ valid
        /\ code = "def f():\n    return 1" => valid

\* the accepted example has been validated
C5_Witness ==
    /\ mode = "validate" /\ pc = "done"
    /\ code = "def f():\n    return 1"
    /\ valid

----------------------------------------------------------------------------
(* The claims about extract_code_blocks, under SpecExtract *)

\* the trimmed bodies of the regions of a fenced layout
TrimmedBodies(l) == [i \in 1 .. Len(l.regions) |-> Strip(l.regions[i].body)]

\* C6 as stated: a text of k fenced regions with backtick-free bodies gives
\* the k trimmed bodies in source order, with or without a tag and a newline
\* after the opening fence.
C6_AsStated ==
    (mode = "extract" /\ pc = "done" /\ layout.kind = "fenced") =>
        code_blocks = TrimmedBodies(layout)

\* s holds no open followed, after it, by a close
NoRegion(s, open, close) ==
    ~ \E i \in 1 .. Len(s) : \E j \in 1 .. Len(s) :
        StartsAt(s, i, open) /\ StartsAt(s, j, close) /\ j >= i + Len(open)

NoDelimitedRegion(s) ==
    /\ NoRegion(s, Fence, Fence)
    /\ NoRegion(s, "'''", "'''")
    /\ NoRegion(s, TripleDouble, TripleDouble)
    /\ NoRegion(s, "{{{", "}}}")

\* from <word> import at index p
FromImportAt(s, p) ==
    /\ StartsAt(s, p, "from ")
    /\ \E w \in p + 6 .. Len(s) :
         /\ \A m \in p + 5 .. w - 1 : CharAt(s, m) \in WordChars
         /\ StartsAt(s, w, " import")

\* a line of s begins with def, class, import or from <word> import
KeywordLine(s) ==
    \E p \in 1 .. Len(s) :
        /\ p = 1 \/ CharAt(s, p - 1) = "\n"
        /\ \/ StartsAt(s, p, "def ") \/ StartsAt(s, p, "class ")
           \/ StartsAt(s, p, "import ") \/ FromImportAt(s, p)

\* C7 as stated: a text with no fenced region and no region of the fallback
\* delimiters gives no candidate.
C7_AsStated ==
    (mode = "extract" /\ pc = "done" /\ NoDelimitedRegion(text)) => code_blocks = <<>>

\* C7, amended: a text with no fenced region and no region of the fallback
\* delimiters gives no candidate exactly when none of its lines begins with
\* def, class, import or from <word> import; with such a line it gives the
\* line runs that the last fallback extracts.
C7_NoRegionNoKeyword ==
    (mode = "extract" /\ pc = "done" /\ NoDelimitedRegion(text)) =>
        (code_blocks = <<>>) = ~ KeywordLine(text)

\* a text with a keyword, but not at the start of a line, gives nothing
C7_Witness ==
    /\ mode = "extract" /\ pc = "done"
    /\ text = "hello def f"
    /\ code_blocks = <<>>

=============================================================================
